---- MODULE Spec2Model ----
(***************************************************************************)
(* ATA work-order analyzer: the tri-source Decision Engine                 *)
(* (core/decision_engine.py) and the Work Order pipeline                   *)
(* (core/wo_processor.py) with the components it sequences.                *)
(*                                                                         *)
(* Encoding of Python values:                                              *)
(*   str            a sequence of one-character strings                    *)
(*   Optional[str]  a str, or None (the one-element sequence <<"None">>,   *)
(*                  which no str equals: every element of a str is one     *)
(*                  character)                                             *)
(*   float in [0,1] an integer number of hundredths (0.3 is 30, 0.97 is    *)
(*                  97); every float literal of the code is a whole        *)
(*                  number of hundredths                                   *)
(*   Optional[float] hundredths, or NoScore                                *)
(*   Optional[bool] "True", "False" or "None"                              *)
(***************************************************************************)
EXTENDS Integers, Sequences, FiniteSets, TLC

VARIABLES
    confidence_threshold,   \* DecisionEngine.confidence_threshold (hundredths)
    args,                   \* arguments of the make_decision call
    pc,                     \* "ready" | "returned" | "raised" | "validated"
    result,                 \* what make_decision returned or raised (NoResult before the call)
    validated,              \* validate_decision(result): "True" | "False" ("None" before the call)
    proc,                   \* WOProcessor configuration: mode, filter_non_defect, confidence_threshold
    heap,                   \* the WOResult objects created so far; an object's id is its index
    cache,                  \* WOProcessor._cache: set of <<cache key, object id>>
    calls,                  \* number of process_wo calls made
    last,                   \* the last process_wo call: its wo_dict and the id it returned
    fn,                     \* the component function called on its own
    arg,                    \* its argument
    at,                     \* "call" before it has run, "return" after
    ret,                    \* what it returned (None before)
    invocations,            \* the calls made on the gate, the extractor and the catalog, in order
    vectorizer,             \* ATACatalog.vectorizer as loaded: "fitted" | "unfitted"
    df,                     \* the dataframe given to process_dataframe: its rows
    results_df,             \* the dataframe it returned (no rows before)
    outcome                 \* of process_dataframe: "pending" | "returned" | the exception raised

vars == <<confidence_threshold, args, pc, result, validated, proc, heap, cache, calls, last,
          fn, arg, at, ret, invocations, vectorizer, df, results_df, outcome>>
engineVars == <<confidence_threshold, args, pc, result, validated>>
pipelineVars == <<proc, heap, cache, calls, last, invocations>>
componentVars == <<fn, arg, at, ret>>
batchVars == <<vectorizer, df, results_df, outcome>>

----------------------------------------------------------------------------
(* Python values *)

None == <<"None">>
NoScore == -1
Digit == {"0", "1", "2", "3", "4", "5", "6", "7", "8", "9"}
Whitespace == {" ", "\t", "\n"}

IsDigit(c) == c \in Digit
NotSpace(c) == c # " "

\* `not x` for an Optional[str]: None and the empty string are falsy
StrFalsy(s) == s = None \/ s = <<>>
StrTruthy(s) == ~StrFalsy(s)

\* `x` as a condition, for an Optional[float]: None and 0.0 are falsy
ScoreTruthy(score) == score # NoScore /\ score # 0

\* `x` as a condition, for an Optional[bool]
BoolTruthy(b) == b = "True"

\* str.strip()
RECURSIVE LStrip(_)
LStrip(s) == IF s # <<>> /\ Head(s) \in Whitespace THEN LStrip(Tail(s)) ELSE s
RECURSIVE RStrip(_)
RStrip(s) ==
    IF s # <<>> /\ s[Len(s)] \in Whitespace THEN RStrip(SubSeq(s, 1, Len(s) - 1)) ELSE s
Strip(s) == RStrip(LStrip(s))

\* f"{digits[:2]}-{digits[2:4]}"
FormatAABB(digits) == <<digits[1], digits[2], "-", digits[3], digits[4]>>

----------------------------------------------------------------------------
(* DecisionEngine *)

normalizeKeepsShort(ata) ==
    IF StrFalsy(ata) THEN None
    ELSE LET ata_clean == SelectSeq(Strip(ata), NotSpace)
             digits == SelectSeq(ata_clean, IsDigit)
         IN  IF Len(digits) >= 4 THEN FormatAABB(digits) ELSE ata_clean

\* DecisionEngine._normalize
normalize(ata) ==
    IF StrFalsy(ata) THEN None
    ELSE LET ata_clean == SelectSeq(Strip(ata), NotSpace)
             digits == SelectSeq(ata_clean, IsDigit)
         IN  IF Len(digits) >= 4 THEN FormatAABB(digits) ELSE None

calculate_e2_confidenceExclusive(score) ==
    IF ~ScoreTruthy(score) THEN 68
    ELSE IF score > 80 THEN 88
    ELSE IF score > 60 THEN 83
    ELSE IF score > 40 THEN 78
    ELSE IF score > 20 THEN 73
    ELSE 68

\* DecisionEngine._calculate_e2_confidence
calculate_e2_confidence(score) ==
    IF ~ScoreTruthy(score) THEN 68
    ELSE IF score >= 80 THEN 88
    ELSE IF score >= 60 THEN 83
    ELSE IF score >= 40 THEN 78
    ELSE IF score >= 20 THEN 73
    ELSE 68

\* A reason string: the literal text of the f-string with its fields left as
\* {}, the ATA codes substituted (None prints as "None") and the score
\* substituted with :.2f (NoScore where the text has no score field).
Reason(text, codes, score) == [text |-> text, codes |-> codes, score |-> score]

\* The dict make_decision returns
Decision(decision, ata04_final, confidence, reason) ==
    [exc |-> "none", decision |-> decision, ata04_final |-> ata04_final,
     confidence |-> confidence, reason |-> reason]

\* make_decision left by an exception (format(None, ".2f") is a TypeError)
Raised(exc) ==
    [exc |-> exc, decision |-> "", ata04_final |-> None,
     confidence |-> NoScore, reason |-> Reason("", <<>>, NoScore)]

\* f'... (score: {e2_score:.2f})': a TypeError for None
ScoreReason(text, codes, e2_score, decision, ata04_final, confidence) ==
    IF e2_score = NoScore THEN Raised("TypeError")
    ELSE Decision(decision, ata04_final, confidence, Reason(text, codes, e2_score))

\* The rule cascade of make_decision, one guard and one outcome per rule.
\* e0, e1, e2 are the normalized codes (e1 is None unless e1_valid).

\* Case 1: all three agree (E0 = E1 = E2, E1 valid)
Case1Applies(e0, e1, e2) ==
    StrTruthy(e0) /\ StrTruthy(e1) /\ StrTruthy(e2) /\ e0 = e1 /\ e1 = e2

Case1(e0) ==
    Decision("CONFIRM", e0, 97, Reason("All sources agree (E0=E1=E2)", <<>>, NoScore))

\* Case 2: E1 and E2 agree, differ from E0 (E1 valid)
Case2Applies(e0, e1, e2) ==
    StrTruthy(e1) /\ StrTruthy(e2) /\ e1 = e2 /\ e0 # e1

Case2KeepsEntered(e0, e1) ==
    Decision("CORRECT", e0, 95,
             Reason("Citation and derived agree on {}, differs from entered {}",
                    <<e1, e0>>, NoScore))

Case2(e0, e1) ==
    Decision("CORRECT", e1, 95,
             Reason("Citation and derived agree on {}, differs from entered {}",
                    <<e1, e0>>, NoScore))

\* Case 3: only E2 matches E0 (no E1 or E1 invalid)
Case3Applies(e0, e1, e2) ==
    StrTruthy(e0) /\ StrTruthy(e2) /\ e0 = e2 /\ ~StrTruthy(e1)

Case3(e0, e2_score) ==
    ScoreReason("Catalog confirms entered ATA (score: {})", <<>>, e2_score,
                "CONFIRM", e0, calculate_e2_confidence(e2_score))

\* Case 4: only E1 valid (no E2 or low score)
Case4Applies(e1, e2, e2_score) ==
    StrTruthy(e1) /\ (~StrTruthy(e2) \/ (ScoreTruthy(e2_score) /\ e2_score < 30))

Case4CorrectKeepsEntered(e0, e1) ==
    IF e0 = e1 THEN
        Decision("CONFIRM", e0, 92,
                 Reason("Valid citation confirms entered ATA", <<>>, NoScore))
    ELSE
        Decision("CORRECT", e0, 90,
                 Reason("Valid citation {} differs from entered {}", <<e1, e0>>, NoScore))

Case4(e0, e1) ==
    IF e0 = e1 THEN
        Decision("CONFIRM", e0, 92,
                 Reason("Valid citation confirms entered ATA", <<>>, NoScore))
    ELSE
        Decision("CORRECT", e1, 90,
                 Reason("Valid citation {} differs from entered {}", <<e1, e0>>, NoScore))

\* Case 5: only E2 with good score (no E1)
Case5Applies(e1, e2, e2_score) ==
    StrTruthy(e2) /\ ScoreTruthy(e2_score) /\ e2_score >= 30 /\ ~StrTruthy(e1)

Case5StrictThreshold(threshold, e0, e2, e2_score) ==
    LET confidence == calculate_e2_confidence(e2_score)
    IN  IF e0 = e2 THEN
            ScoreReason("Catalog confirms (score: {})", <<>>, e2_score,
                        "CONFIRM", e0, confidence)
        ELSE IF confidence > threshold THEN
            ScoreReason("Catalog suggests {} (score: {})", <<e2>>, e2_score,
                        "CORRECT", e2, confidence)
        ELSE
            ScoreReason("Low catalog confidence (score: {})", <<>>, e2_score,
                        "REVIEW", e0, confidence)

Case5(threshold, e0, e2, e2_score) ==
    LET confidence == calculate_e2_confidence(e2_score)
    IN  IF e0 = e2 THEN
            ScoreReason("Catalog confirms (score: {})", <<>>, e2_score,
                        "CONFIRM", e0, confidence)
        ELSE IF confidence >= threshold THEN
            ScoreReason("Catalog suggests {} (score: {})", <<e2>>, e2_score,
                        "CORRECT", e2, confidence)
        ELSE
            ScoreReason("Low catalog confidence (score: {})", <<>>, e2_score,
                        "REVIEW", e0, confidence)

\* Case 6: E1 and E2 disagree
Case6Applies(e1, e2) ==
    StrTruthy(e1) /\ StrTruthy(e2) /\ e1 # e2

Case6RawScore(e0, e1, e2, e2_score) ==
    IF e0 = e1 THEN
        Decision("CONFIRM", e0, 88,
                 Reason("Citation confirms E0={}, catalog suggests {}", <<e1, e2>>, NoScore))
    ELSE IF e0 = e2 THEN
        IF e2_score >= 85 THEN
            Decision("CONFIRM", e0, 85,
                     Reason("Strong catalog confirms E0={}, citation suggests {}",
                            <<e2, e1>>, NoScore))
        ELSE
            Decision("REVIEW", e0, 70,
                     Reason("Conflict: citation={}, catalog={}", <<e1, e2>>, NoScore))
    ELSE
        Decision("REVIEW", e0, 65,
                 Reason("All differ: E0={}, citation={}, catalog={}", <<e0, e1, e2>>, NoScore))

Case6(e0, e1, e2, e2_score) ==
    IF e0 = e1 THEN
        Decision("CONFIRM", e0, 88,
                 Reason("Citation confirms E0={}, catalog suggests {}", <<e1, e2>>, NoScore))
    ELSE IF e0 = e2 THEN
        IF calculate_e2_confidence(e2_score) >= 85 THEN
            Decision("CONFIRM", e0, 85,
                     Reason("Strong catalog confirms E0={}, citation suggests {}",
                            <<e2, e1>>, NoScore))
        ELSE
            Decision("REVIEW", e0, 70,
                     Reason("Conflict: citation={}, catalog={}", <<e1, e2>>, NoScore))
    ELSE
        Decision("REVIEW", e0, 65,
                 Reason("All differ: E0={}, citation={}, catalog={}", <<e0, e1, e2>>, NoScore))

\* Case 7: only E0 available
Case7Applies(e0, e1, e2) ==
    StrTruthy(e0) /\ ~StrTruthy(e1) /\ ~StrTruthy(e2)

Case7LowConfidence(e0) ==
    Decision("REVIEW", e0, 50, Reason("No citation or catalog match found", <<>>, NoScore))

Case7(e0) ==
    Decision("REVIEW", e0, 65, Reason("No citation or catalog match found", <<>>, NoScore))

\* Case 8: no ATA available at all
Case8AlwaysNull(e0) ==
    Decision("REVIEW", None, 50, Reason("Insufficient data for decision", <<>>, NoScore))

Case8(e0) ==
    Decision("REVIEW", IF StrTruthy(e0) THEN e0 ELSE None, 50,
             Reason("Insufficient data for decision", <<>>, NoScore))

make_decisionTrustsCitation(threshold, e0_in, e1_in, e1_valid, e2_in, e2_score) ==
    LET e0 == normalize(e0_in)
        e1 == IF e1_valid # "False" THEN normalize(e1_in) ELSE None
        e2 == normalize(e2_in)
    IN  IF Case1Applies(e0, e1, e2) THEN Case1(e0)
        ELSE IF Case2Applies(e0, e1, e2) THEN Case2(e0, e1)
        ELSE IF Case3Applies(e0, e1, e2) THEN Case3(e0, e2_score)
        ELSE IF Case4Applies(e1, e2, e2_score) THEN Case4(e0, e1)
        ELSE IF Case5Applies(e1, e2, e2_score) THEN Case5(threshold, e0, e2, e2_score)
        ELSE IF Case6Applies(e1, e2) THEN Case6(e0, e1, e2, e2_score)
        ELSE IF Case7Applies(e0, e1, e2) THEN Case7(e0)
        ELSE Case8(e0)

\* DecisionEngine.make_decision, for an engine whose confidence_threshold is threshold
make_decision(threshold, e0_in, e1_in, e1_valid, e2_in, e2_score) ==
    LET e0 == normalize(e0_in)
        e1 == IF BoolTruthy(e1_valid) THEN normalize(e1_in) ELSE None
        e2 == normalize(e2_in)
    IN  IF Case1Applies(e0, e1, e2) THEN Case1(e0)
        ELSE IF Case2Applies(e0, e1, e2) THEN Case2(e0, e1)
        ELSE IF Case3Applies(e0, e1, e2) THEN Case3(e0, e2_score)
        ELSE IF Case4Applies(e1, e2, e2_score) THEN Case4(e0, e1)
        ELSE IF Case5Applies(e1, e2, e2_score) THEN Case5(threshold, e0, e2, e2_score)
        ELSE IF Case6Applies(e1, e2) THEN Case6(e0, e1, e2, e2_score)
        ELSE IF Case7Applies(e0, e1, e2) THEN Case7(e0)
        ELSE Case8(e0)

\* DecisionEngine.validate_decision, applied to a dict make_decision returned
\* (all four keys are present in every such dict)
validate_decision(decision_result) ==
    IF decision_result.decision \notin {"CONFIRM", "CORRECT", "REVIEW", "NON_DEFECT"} THEN FALSE
    ELSE IF decision_result.confidence = NoScore
            \/ decision_result.confidence < 0
            \/ decision_result.confidence > 100 THEN FALSE
    ELSE TRUE

----------------------------------------------------------------------------
(* Free text *)

\* A text is a sequence of whitespace-separated tokens.  A token is a word
\* (w), a dash-joined number such as 21-26-00 (n, its digit groups, each a
\* str), or a manual tag written against a number such as TSM21-26-00 (both).
Word(w) == [w |-> w, n |-> <<>>]
Num(groups) == [w |-> "", n |-> groups]
Glued(w, groups) == [w |-> w, n |-> groups]

IsWord(t) == t.w # "" /\ t.n = <<>>
IsNum(t) == t.w = "" /\ t.n # <<>>
IsGlued(t) == t.w # "" /\ t.n # <<>>

\* str.lower() and str.upper() of a word
Lower(w) ==
    CASE w = "TSM" -> "tsm" [] w = "FIM" -> "fim" [] w = "AMM" -> "amm"
      [] w = "NFF" -> "nff" [] w = "ECAM" -> "ecam" [] w = "Task" -> "task"
      [] w = "Ref" -> "ref" [] w = "Cabin" -> "cabin" [] w = "Pack" -> "pack"
      [] w = "Warning" -> "warning" [] w = "Cleaning" -> "cleaning"
      [] w = "Task:" -> "task:" [] w = "Scheduled" -> "scheduled"
      [] w = "Inspected" -> "inspected" [] w = "Replaced" -> "replaced"
      [] w = "Performed" -> "performed"
      [] OTHER -> w

Upper(w) ==
    CASE w = "tsm" -> "TSM" [] w = "fim" -> "FIM" [] w = "amm" -> "AMM"
      [] w = "task" -> "TASK" [] w = "Task" -> "TASK"
      [] w = "ref" -> "REF" [] w = "Ref" -> "REF"
      [] w = "reference" -> "REFERENCE"
      [] OTHER -> w

RECURSIVE LowerText(_)
LowerText(text) ==
    IF text = <<>> THEN <<>>
    ELSE <<[Head(text) EXCEPT !.w = Lower(@)]>> \o LowerText(Tail(text))

----------------------------------------------------------------------------
(* NonDefectFilter *)

\* A pattern \bw1\s+w2...\b is the sequence of the sets of words each
\* position accepts.

\* NonDefectFilter.NON_DEFECT_PATTERNS
NON_DEFECT_PATTERNS == <<
    <<{"clean", "cleaning", "cleaned"}>>,
    <<{"lubrication"}>>,
    <<{"servicing"}>>,
    <<{"oil"}, {"replenish", "replenishment", "replenished"}>>,
    <<{"first"}, {"aid"}, {"kit"}>>,
    <<{"tyre"}, {"wear"}>>,
    <<{"tire"}, {"wear"}>>,
    <<{"scheduled"}, {"maintenance", "inspection", "check"}>>,
    <<{"routine"}, {"maintenance", "inspection", "check"}>>,
    <<{"software"}, {"load", "loading", "loaded"}>>,
    <<{"software"}, {"update"}>>,
    <<{"nff"}>>,
    <<{"no"}, {"fault"}, {"found"}>>,
    <<{"operational"}, {"check"}>>,
    <<{"functional"}, {"test", "check"}>>,
    <<{"visual"}, {"inspection"}>>,
    <<{"general"}, {"inspection"}>>,
    <<{"periodic"}, {"check", "inspection"}>>,
    <<{"replacement"}, {"as"}, {"per"}, {"schedule"}>>,
    <<{"life"}, {"limited"}, {"part"}>>,
    <<{"llp"}, {"replacement"}>>,
    <<{"cabin"}, {"cleaning", "refurbishment"}>>,
    <<{"cosmetic"}, {"repair"}>>,
    <<{"seat"}, {"cleaning", "cover"}>>,
    <<{"carpet"}, {"cleaning", "replacement"}>>,
    <<{"lavatory"}, {"cleaning", "servicing"}>>,
    <<{"galley"}, {"cleaning", "servicing"}>>,
    <<{"passenger"}, {"seat", "entertainment"}, {"cleaning", "adjustment"}>> >>

\* NonDefectFilter.DEFECT_OVERRIDE_PATTERNS
DEFECT_OVERRIDE_PATTERNS == <<
    <<{"failure"}>>, <<{"failed"}>>, <<{"fault"}>>, <<{"faulty"}>>,
    <<{"leak", "leaking", "leakage"}>>,
    <<{"overheat", "overheating", "overheated"}>>,
    <<{"vibration"}>>, <<{"ecam"}>>, <<{"eicas"}>>, <<{"cas"}>>, <<{"warning"}>>,
    <<{"smoke"}>>, <<{"inoperative"}>>, <<{"inop"}>>, <<{"unserviceable"}>>, <<{"u/s"}>>,
    <<{"defect", "defective"}>>, <<{"damage", "damaged"}>>, <<{"broken"}>>,
    <<{"crack", "cracked"}>>, <<{"corrosion"}>>, <<{"error"}>>, <<{"abnormal"}>>,
    <<{"malfunction"}>>,
    <<{"not"}, {"working"}>>,
    <<{"out"}, {"of"}, {"tolerance"}>>,
    <<{"exceed", "exceeded", "exceeds"}, {"limit"}>>,
    <<{"high"}, {"temperature", "pressure", "vibration"}>>,
    <<{"low"}, {"pressure", "oil", "fuel"}>>,
    <<{"contamination"}>>,
    <<{"wear"}, {"beyond", "exceeds"}>>,
    <<{"noise"}>>,
    <<{"unusual"}, {"noise", "sound", "smell"}>> >>

\* the pattern matches the text at token i
MatchesAt(pattern, text, i) ==
    /\ i + Len(pattern) - 1 <= Len(text)
    /\ \A j \in 1..Len(pattern) :
          /\ IsWord(text[i + j - 1])
          /\ text[i + j - 1].w \in pattern[j]

\* the first pattern that matches the text at token i, 0 if none does
FirstMatchAt(patterns, text, i) ==
    LET ks == {k \in 1..Len(patterns) : MatchesAt(patterns[k], text, i)}
    IN  IF ks = {} THEN 0 ELSE CHOOSE x \in ks : \A y \in ks : x <= y

\* re.search of the alternation of the patterns, from token i on: the
\* leftmost position where one matches and, there, the first that does;
\* <<0, 0>> for no match
RECURSIVE SearchFrom(_, _, _)
SearchFrom(patterns, text, i) ==
    IF i > Len(text) THEN <<0, 0>>
    ELSE LET k == FirstMatchAt(patterns, text, i)
         IN  IF k # 0 THEN <<i, k>> ELSE SearchFrom(patterns, text, i + 1)

Search(patterns, text) == SearchFrom(patterns, text, 1)

\* match.group(): the words matched
Group(patterns, text, hit) ==
    [j \in 1..Len(patterns[hit[2]]) |-> text[hit[1] + j - 1].w]

\* The reason string of the gate: its text, and the phrase quoted in it
GateReason(text, phrase) == [text |-> text, phrase |-> phrase]
NoGateReason == GateReason("None", <<>>)

is_technical_defectRoutineFirst(description, action) ==
    LET combined_text == LowerText(description \o action)
        override == Search(DEFECT_OVERRIDE_PATTERNS, combined_text)
        routine == Search(NON_DEFECT_PATTERNS, combined_text)
    IN  IF routine # <<0, 0>> THEN
            [is_defect |-> FALSE,
             reason |-> GateReason("Routine maintenance: '{}'",
                                   Group(NON_DEFECT_PATTERNS, combined_text, routine))]
        ELSE IF override # <<0, 0>> THEN
            [is_defect |-> TRUE,
             reason |-> GateReason("Defect indicator found: '{}'",
                                   Group(DEFECT_OVERRIDE_PATTERNS, combined_text, override))]
        ELSE
            [is_defect |-> TRUE,
             reason |-> GateReason("Default: no non-defect pattern found", <<>>)]

\* NonDefectFilter.is_technical_defect
is_technical_defect(description, action) ==
    LET combined_text == LowerText(description \o action)
        override == Search(DEFECT_OVERRIDE_PATTERNS, combined_text)
        routine == Search(NON_DEFECT_PATTERNS, combined_text)
    IN  IF override # <<0, 0>> THEN
            [is_defect |-> TRUE,
             reason |-> GateReason("Defect indicator found: '{}'",
                                   Group(DEFECT_OVERRIDE_PATTERNS, combined_text, override))]
        ELSE IF routine # <<0, 0>> THEN
            [is_defect |-> FALSE,
             reason |-> GateReason("Routine maintenance: '{}'",
                                   Group(NON_DEFECT_PATTERNS, combined_text, routine))]
        ELSE
            [is_defect |-> TRUE,
             reason |-> GateReason("Default: no non-defect pattern found", <<>>)]

----------------------------------------------------------------------------
(* CitationExtractor *)

\* CitationExtractor.MANUAL_TYPES: the manual type of a recognized token, "" for others
MANUAL_TYPES(w) ==
    CASE w = "TSM" -> "TSM" [] w = "FIM" -> "FIM" [] w = "AMM" -> "AMM"
      [] w = "TASK" -> "AMM" [] w = "REF" -> "TSM"
      [] OTHER -> ""

IsTag(w) == Upper(w) \in {"TSM", "FIM", "AMM"}
\* (?:task|ref|reference)\s*:? as one token: the word, or the word with its colon
IsTaskWord(w) ==
    Lower(w) \in {"task", "ref", "reference", "task:", "ref:", "reference:"}

\* (\d{2})-(\d{2})-(\d{2}): the token's number starts with three groups of two digits
IsTaskNumber(n) == Len(n) >= 3 /\ \A k \in 1..3 : Len(n[k]) = 2

\* the groups the number part captures: the three groups, then (?:-(\d{3}))?(?:-(\d{3}))?
\* when most is 5
NumberGroups(n, most) ==
    LET has4 == most >= 4 /\ Len(n) >= 4 /\ Len(n[4]) = 3
        has5 == has4 /\ most >= 5 /\ Len(n) >= 5 /\ Len(n[5]) = 3
    IN  SubSeq(n, 1, IF has5 THEN 5 ELSE IF has4 THEN 4 ELSE 3)

\* A regex match: the text captured by the (TSM|FIM|AMM) group ("" when the
\* pattern has none or it did not take part), the digit groups captured, and
\* the index of the token after the match.
Match(tag, nums, next) == [tag |-> tag, nums |-> nums, next |-> next]
NoMatch == Match("", <<>>, 0)

\* The four PATTERNS, each matched at token i of the text (NoMatch if it does not match there)
\* 1: \b(TSM|FIM|AMM)\s*(\d{2})-(\d{2})-(\d{2})(?:-(\d{3}))?(?:-(\d{3}))?\b
Pattern1At(text, i) ==
    IF IsGlued(text[i]) /\ IsTag(text[i].w) /\ IsTaskNumber(text[i].n) THEN
        Match(text[i].w, NumberGroups(text[i].n, 5), i + 1)
    ELSE IF IsWord(text[i]) /\ IsTag(text[i].w) /\ i < Len(text)
            /\ IsNum(text[i + 1]) /\ IsTaskNumber(text[i + 1].n) THEN
        Match(text[i].w, NumberGroups(text[i + 1].n, 5), i + 2)
    ELSE NoMatch

\* 2: \b(TSM|FIM|AMM)(\d{2})-?(\d{2})-?(\d{2})(?:-?(\d{3}))?(?:-?(\d{3}))?\b
Pattern2At(text, i) ==
    IF IsGlued(text[i]) /\ IsTag(text[i].w) /\ IsTaskNumber(text[i].n) THEN
        Match(text[i].w, NumberGroups(text[i].n, 5), i + 1)
    ELSE NoMatch

\* 3: \b(\d{2})-(\d{2})-(\d{2})(?:-(\d{3}))?(?:-(\d{3}))?\b
Pattern3At(text, i) ==
    IF IsNum(text[i]) /\ IsTaskNumber(text[i].n) THEN
        Match("", NumberGroups(text[i].n, 5), i + 1)
    ELSE NoMatch

\* 4: \b(?:task|ref|reference)\s*:?\s*(TSM|FIM|AMM)?\s*(\d{2})-?(\d{2})-?(\d{2})\b
Pattern4At(text, i) ==
    IF ~(IsWord(text[i]) /\ IsTaskWord(text[i].w) /\ i < Len(text)) THEN NoMatch
    ELSE IF IsNum(text[i + 1]) /\ IsTaskNumber(text[i + 1].n) THEN
        Match("", NumberGroups(text[i + 1].n, 3), i + 2)
    ELSE IF IsGlued(text[i + 1]) /\ IsTag(text[i + 1].w) /\ IsTaskNumber(text[i + 1].n) THEN
        Match(text[i + 1].w, NumberGroups(text[i + 1].n, 3), i + 2)
    ELSE IF IsWord(text[i + 1]) /\ IsTag(text[i + 1].w) /\ i + 1 < Len(text)
            /\ IsNum(text[i + 2]) /\ IsTaskNumber(text[i + 2].n) THEN
        Match(text[i + 1].w, NumberGroups(text[i + 2].n, 3), i + 3)
    ELSE NoMatch

PatternAt(p, text, i) ==
    CASE p = 1 -> Pattern1At(text, i)
      [] p = 2 -> Pattern2At(text, i)
      [] p = 3 -> Pattern3At(text, i)
      [] p = 4 -> Pattern4At(text, i)

NumPatterns == 4

\* pattern.finditer(text): the matches from token i on, left to right, not overlapping
RECURSIVE FindIter(_, _, _)
FindIter(p, text, i) ==
    IF i > Len(text) THEN <<>>
    ELSE LET m == PatternAt(p, text, i)
         IN  IF m = NoMatch THEN FindIter(p, text, i + 1)
             ELSE <<m>> \o FindIter(p, text, m.next)

\* '-'.join(parts)
RECURSIVE JoinDash(_)
JoinDash(parts) ==
    IF parts = <<>> THEN <<>>
    ELSE IF Len(parts) = 1 THEN parts[1]
    ELSE parts[1] \o <<"-">> \o JoinDash(Tail(parts))

NoCitation ==
    [manual_type |-> "", task_number |-> None, ata04 |-> None,
     chapter |-> None, section |-> None, subject |-> None, subsections |-> <<>>]

\* CitationExtractor._parse_match; NoCitation for None.  groups[0] is the tag
\* group for patterns 1, 2 and 4 (the words task/ref are in no group) and the
\* first number for pattern 3; numeric_groups are the digit groups.
parse_match(m) ==
    LET manual_type == IF m.tag # "" /\ MANUAL_TYPES(Upper(m.tag)) # ""
                       THEN MANUAL_TYPES(Upper(m.tag)) ELSE "TSM"
        numeric_groups == m.nums
    IN  IF Len(numeric_groups) < 2 THEN NoCitation
        ELSE LET chapter == numeric_groups[1]
                 section == numeric_groups[2]
                 subject == IF Len(numeric_groups) >= 3 THEN numeric_groups[3] ELSE <<"0", "0">>
                 task_parts == <<chapter, section, subject>>
                                 \o SubSeq(numeric_groups, 4, Len(numeric_groups))
             IN  [manual_type |-> manual_type,
                  task_number |-> JoinDash(task_parts),
                  ata04 |-> chapter \o <<"-">> \o section,
                  chapter |-> chapter,
                  section |-> section,
                  subject |-> subject,
                  subsections |-> SubSeq(numeric_groups, 4, Len(numeric_groups))]

\* the citation's key in `seen`
CitationKey(c) == <<c.manual_type, c.task_number>>

RECURSIVE AddMatchesNoSeen(_, _)
AddMatchesNoSeen(citations, matches) ==
    IF matches = <<>> THEN citations
    ELSE LET citation == parse_match(Head(matches))
         IN  IF citation # NoCitation
             THEN AddMatchesNoSeen(Append(citations, citation), Tail(matches))
             ELSE AddMatchesNoSeen(citations, Tail(matches))

\* the inner loop of extract_citations over the matches of one pattern
RECURSIVE AddMatches(_, _)
AddMatches(citations, matches) ==
    IF matches = <<>> THEN citations
    ELSE LET citation == parse_match(Head(matches))
             seen == {CitationKey(citations[k]) : k \in DOMAIN citations}
         IN  IF citation # NoCitation /\ CitationKey(citation) \notin seen
             THEN AddMatches(Append(citations, citation), Tail(matches))
             ELSE AddMatches(citations, Tail(matches))

RECURSIVE ExtractFromLowestFirst(_, _, _)
ExtractFromLowestFirst(p, text, citations) ==
    IF p > NumPatterns THEN citations
    ELSE ExtractFromLowestFirst(p + 1, text,
                                AddMatches(citations, FindIter(NumPatterns + 1 - p, text, 1)))

\* the outer loop of extract_citations, from pattern p on
RECURSIVE ExtractFrom(_, _, _)
ExtractFrom(p, text, citations) ==
    IF p > NumPatterns THEN citations
    ELSE ExtractFrom(p + 1, text, AddMatches(citations, FindIter(p, text, 1)))

\* CitationExtractor.extract_citations
extract_citations(text) ==
    IF text = <<>> THEN <<>> ELSE ExtractFrom(1, text, <<>>)

\* re.sub(r'[^\d-]', '', task) keeps these characters
IsDigitOrDash(c) == c \in Digit \/ c = "-"
HasDash(s) == \E k \in DOMAIN s : s[k] = "-"

\* str.split('-')
RECURSIVE SplitDash(_)
SplitDash(s) ==
    IF ~HasDash(s) THEN <<s>>
    ELSE LET i == CHOOSE k \in DOMAIN s : s[k] = "-" /\ \A j \in 1..(k - 1) : s[j] # "-"
         IN  <<SubSeq(s, 1, i - 1)>> \o SplitDash(SubSeq(s, i + 1, Len(s)))

\* the split of a string without dashes into the 2-2-2-3-3 pattern
SplitByPosition(clean) ==
    (IF Len(clean) >= 2 THEN <<SubSeq(clean, 1, 2)>> ELSE <<>>)
    \o (IF Len(clean) >= 4 THEN <<SubSeq(clean, 3, 4)>> ELSE <<>>)
    \o (IF Len(clean) >= 6 THEN <<SubSeq(clean, 5, 6)>> ELSE <<>>)
    \o (IF Len(clean) >= 9 THEN <<SubSeq(clean, 7, 9)>> ELSE <<>>)
    \o (IF Len(clean) >= 12 THEN <<SubSeq(clean, 10, 12)>> ELSE <<>>)

\* while len(parts) < 3: parts.append('00')
RECURSIVE PadParts(_)
PadParts(parts) ==
    IF Len(parts) < 3 THEN PadParts(Append(parts, <<"0", "0">>)) ELSE parts

\* CitationExtractor.normalize_task_number
normalize_task_number(task) ==
    LET clean == SelectSeq(task, IsDigitOrDash)
        parts == IF HasDash(clean) THEN SplitDash(clean) ELSE SplitByPosition(clean)
        padded == PadParts(parts)
    IN  JoinDash(SubSeq(padded, 1, IF Len(padded) > 5 THEN 5 ELSE Len(padded)))

----------------------------------------------------------------------------
(* ATACatalog *)

NoDerived == [ata04 |-> None, score |-> NoScore, description |-> "None"]

\* The catalog the processor was given: the ATA entry nearest to a defect
\* text and its cosine similarity, as the fitted vectorizer and matrix give
\* them (top_indices[0], top_scores[0]).  A text with no catalog term has
\* similarity 0 to every entry.
TopMatch(defect_text) ==
    LET words == {Lower(defect_text[k].w) : k \in DOMAIN defect_text}
    IN  IF "pack" \in words THEN
            [ata04 |-> <<"2", "1", "-", "2", "6">>, score |-> 85, description |-> "Air Conditioning"]
        ELSE IF "valve" \in words THEN
            [ata04 |-> <<"2", "1", "-", "2", "7">>, score |-> 25, description |-> "Air Conditioning"]
        ELSE IF "light" \in words THEN
            [ata04 |-> <<"3", "3", "-", "4", "1">>, score |-> 15, description |-> "Lights"]
        ELSE [ata04 |-> <<"0", "5", "-", "0", "0">>, score |-> 0, description |-> ""]

\* ATACatalog.predict_ata(defect_text) with the default min_score of 0.2
predict_ata(defect_text) ==
    IF defect_text = <<>> THEN NoDerived
    ELSE LET top == TopMatch(defect_text)
         IN  IF top.score >= 20 THEN top ELSE NoDerived

----------------------------------------------------------------------------
(* ReferenceRegistry *)

\* The registry database: the rows of its references table, and whether the
\* connection answers queries
RegistryRow(manual_type, task_number) ==
    [manual_type |-> manual_type, task_number |-> task_number]
KnownReferences ==
    {RegistryRow("TSM", <<"2", "1", "-", "2", "6", "-", "0", "0">>),
     RegistryRow("AMM", <<"2", "1", "-", "2", "6", "-", "0", "0">>)}
Registries == [rows : SUBSET KnownReferences, conn : {"open", "closed"}]

\* ReferenceRegistry.exists(task_number, manual_type): COUNT(*) > 0 over the
\* rows with that task number (and manual type, when one is given); False
\* when the query raises
exists(registry, task_number, manual_type) ==
    IF registry.conn # "open" THEN FALSE
    ELSE IF manual_type # "None" /\ manual_type # ""
    THEN \E row \in registry.rows :
            row.task_number = task_number /\ row.manual_type = manual_type
    ELSE \E row \in registry.rows : row.task_number = task_number

----------------------------------------------------------------------------
(* RAGStore *)

\* The store the processor was given: the best chunk RAGStore.search(query)
\* finds in its indices, with the similarity 1 / (1 + distance); no chunk
\* for an empty query, for a query near no chunk, or when the search raises
rag_search(query) ==
    LET words == {Lower(query[k].w) : k \in DOMAIN query}
    IN  IF query = <<>> THEN NoDerived
        ELSE IF "pack" \in words THEN
            [ata04 |-> <<"2", "1", "-", "2", "6">>, score |-> 80, description |-> "TSM"]
        ELSE IF "valve" \in words THEN
            [ata04 |-> <<"2", "1", "-", "2", "7">>, score |-> 40, description |-> "AMM"]
        ELSE NoDerived

----------------------------------------------------------------------------
(* The texts of the work orders processed *)

G(a, b) == <<a, b>>
TASK_21_26_00 == <<G("2", "1"), G("2", "6"), G("0", "0")>>

\* defect descriptions: a fault the catalog knows well, routine cabin work,
\* and a finding the catalog matches weakly
DefectTexts ==
    {<<Word("Pack"), Word("leak")>>,
     <<Word("Cabin"), Word("cleaning")>>,
     <<Word("valve"), Word("stuck")>>}

\* action texts: one citing a manual, one citing none
RectificationTexts ==
    {<<Word("replaced"), Word("per"), Word("TSM"), Num(TASK_21_26_00)>>,
     <<Word("performed"), Word("check")>>}

\* non_defect_filter.is_technical_defect(defect_text, rectification_text) for
\* the texts above, evaluated once for each pair of them
\* two work orders whose texts differ and whose description, '|' and action
\* read the same: 'valve stuck|reset' with 'performed check', and
\* 'valve stuck' with 'reset|performed check'
DescriptionWithBar == <<Word("valve"), Word("stuck|reset")>>
ActionAfterBar == <<Word("performed"), Word("check")>>
DescriptionBeforeBar == <<Word("valve"), Word("stuck")>>
ActionWithBar == <<Word("reset|performed"), Word("check")>>

\* the pairs of texts of the work orders
TextPairs ==
    (DefectTexts \X RectificationTexts)
    \cup {<<DescriptionWithBar, ActionAfterBar>>, <<DescriptionBeforeBar, ActionWithBar>>}

GateResults ==
    {<<pair[1], pair[2], is_technical_defect(pair[1], pair[2])>> : pair \in TextPairs}
GateResult(defect_text, rectification_text) ==
    (CHOOSE e \in GateResults : e[1] = defect_text /\ e[2] = rectification_text)[3]

----------------------------------------------------------------------------
(* WOProcessor *)

NotSpaceOrDash(c) == c # " " /\ c # "-"

\* WOProcessor._normalize_ata
normalize_ata(ata) ==
    IF StrFalsy(ata) THEN <<>>
    ELSE LET ata_str == Strip(ata)
             ata_clean == SelectSeq(ata_str, NotSpaceOrDash)
             digits == SelectSeq(ata_clean, IsDigit)
         IN  IF Len(digits) >= 4 THEN FormatAABB(digits) ELSE ata_str

\* WOProcessor._get_cache_key: the digest of f"{defect_text}|{rectification_text}",
\* which is the same for two pairs exactly when the combined string is
Bar == Word("|")
Space == Word(" ")
\* a token as the pieces of its string: a '|' inside a word is a piece of its own
Pieces(token) ==
    CASE token = Word("stuck|reset") -> <<Word("stuck"), Bar, Word("reset")>>
      [] token = Word("reset|performed") -> <<Word("reset"), Bar, Word("performed")>>
      [] OTHER -> <<token>>
\* a text as the pieces of its string, the spaces between its tokens included
RECURSIVE Combined(_)
Combined(text) ==
    IF text = <<>> THEN <<>>
    ELSE IF Len(text) = 1 THEN Pieces(text[1])
    ELSE Pieces(Head(text)) \o <<Space>> \o Combined(Tail(text))
get_cache_key(defect_text, rectification_text) ==
    Combined(defect_text) \o <<Bar>> \o Combined(rectification_text)

\* The Reason string of a WOResult: a prefix, then the reason of the gate
\* (text and quoted phrase) or of the decision engine (text, codes and score)
WOReason(prefix, text, codes, score, phrase) ==
    [prefix |-> prefix, text |-> text, codes |-> codes, score |-> score, phrase |-> phrase]
NoReason == WOReason("", "None", <<>>, NoScore, <<>>)
\* f"Non-technical: {reason}"
NonTechnical(reason) == WOReason("Non-technical: ", reason.text, <<>>, NoScore, reason.phrase)
\* decision_result['reason']
EngineReason(reason) == WOReason("", reason.text, reason.codes, reason.score, <<>>)

\* WOResult(...) as process_wo first builds it
NewWOResult(ata_entered, wo_dict) ==
    [ATA04_Entered |-> ata_entered,
     Defect_Text |-> wo_dict.Defect_Text,
     Rectification_Text |-> wo_dict.Rectification_Text,
     WO_Type |-> wo_dict.WO_Type,
     AC_Registration |-> wo_dict.AC_Registration,
     Open_Date |-> wo_dict.Open_Date,
     Close_Date |-> wo_dict.Close_Date,
     Is_Technical_Defect |-> TRUE,
     Non_Defect_Reason |-> NoGateReason,
     ATA04_From_Cited |-> None,
     Cited_Manual |-> "None",
     Cited_Task |-> None,
     Cited_Exists |-> "None",
     ATA04_Derived |-> None,
     Derived_Task |-> None,
     Derived_DocType |-> "None",
     Derived_Score |-> NoScore,
     Evidence_Snippet |-> "None",
     Evidence_Source |-> "None",
     Decision |-> "REVIEW",
     ATA04_Final |-> None,
     Confidence |-> NoScore,
     Reason |-> NoReason]

\* process_wo, cache hit: the cached object with the current row's fields
UpdateCached(cached, ata_entered, wo_dict) ==
    [cached EXCEPT !.ATA04_Entered = ata_entered,
                   !.WO_Type = wo_dict.WO_Type,
                   !.AC_Registration = wo_dict.AC_Registration,
                   !.Open_Date = wo_dict.Open_Date,
                   !.Close_Date = wo_dict.Close_Date]

NonDefectResultAsReview(r, ata_entered, gate) ==
    [r EXCEPT !.Is_Technical_Defect = FALSE,
              !.Non_Defect_Reason = gate.reason,
              !.Decision = "REVIEW",
              !.ATA04_Final = ata_entered,
              !.Confidence = 99,
              !.Reason = NonTechnical(gate.reason)]

\* process_wo, phase 1 decided non-defect
NonDefectResult(r, ata_entered, gate) ==
    [r EXCEPT !.Is_Technical_Defect = FALSE,
              !.Non_Defect_Reason = gate.reason,
              !.Decision = "NON_DEFECT",
              !.ATA04_Final = ata_entered,
              !.Confidence = 99,
              !.Reason = NonTechnical(gate.reason)]

\* process_wo, phase 2: the first citation found is E1
WithCitation(r, citations) ==
    IF citations = <<>> THEN r
    ELSE [r EXCEPT !.ATA04_From_Cited = citations[1].ata04,
                   !.Cited_Manual = citations[1].manual_type,
                   !.Cited_Task = citations[1].task_number,
                   !.Cited_Exists = "True"]

\* process_wo, phase 3: E2 from the catalog, in catalog mode only
WithDerived(r, mode, defect_text) ==
    LET derived == predict_ata(defect_text)
    IN  IF mode = "catalog" /\ derived # NoDerived THEN
            [r EXCEPT !.ATA04_Derived = derived.ata04,
                      !.Derived_DocType = "CATALOG",
                      !.Derived_Score = derived.score,
                      !.Evidence_Snippet = derived.description,
                      !.Evidence_Source = "ATA Catalog"]
        ELSE r

\* process_wo, phase 4: the decision engine's result attached
WithDecision(r, decision_result) ==
    [r EXCEPT !.Decision = decision_result.decision,
              !.ATA04_Final = decision_result.ata04_final,
              !.Confidence = decision_result.confidence,
              !.Reason = EngineReason(decision_result.reason)]

\* the decision engine call of phase 4
Phase4Decision(threshold, ata_entered, r) ==
    make_decision(threshold, ata_entered, r.ATA04_From_Cited, r.Cited_Exists,
                  r.ATA04_Derived, r.Derived_Score)

\* process_wo on a cache miss: the WOResult computed through the four phases
ComputeWOResult(config, threshold, ata_entered, wo_dict) ==
    LET r0 == NewWOResult(ata_entered, wo_dict)
        gate == GateResult(wo_dict.Defect_Text, wo_dict.Rectification_Text)
        r1 == IF config.filter_non_defect
              THEN [r0 EXCEPT !.Is_Technical_Defect = gate.is_defect,
                              !.Non_Defect_Reason = gate.reason]
              ELSE r0
        r2 == WithCitation(r1, extract_citations(wo_dict.Rectification_Text))
        r3 == WithDerived(r2, config.mode, wo_dict.Defect_Text)
    IN  IF config.filter_non_defect /\ ~gate.is_defect
        THEN NonDefectResult(r1, ata_entered, gate)
        ELSE WithDecision(r3, Phase4Decision(threshold, ata_entered, r3))

----------------------------------------------------------------------------
(* A DecisionEngine and one make_decision call on it *)

\* str literals
S(a, b, c, d) == <<a, b, "-", c, d>>
ATA_21_26 == S("2", "1", "2", "6")
ATA_21_27 == S("2", "1", "2", "7")
ATA_21_28 == S("2", "1", "2", "8")

\* values of the e0 argument: absent, empty, canonical, undashed, padded,
\* with a subject part, too short, not numeric
E0Inputs ==
    {None, <<>>, ATA_21_26, <<"2", "1", "2", "7">>, <<" ", "2", "1", " ", "2", "8", " ">>,
     <<"2", "1", "-", "2", "6", "-", "0", "0">>, <<"2", "1", "2">>, <<"A", "B", "C">>}
E1Inputs == {None, ATA_21_26, ATA_21_27, <<"2", "1", "-", "2">>}
E1ValidInputs == {"True", "False", "None"}
E2Inputs == {None, ATA_21_26, ATA_21_27, ATA_21_28, <<"N", "/", "A">>}
ScoreInputs == {NoScore, 0, 10, 20, 29, 30, 40, 59, 60, 79, 80, 100}
ThresholdInputs == {50, 73, 75, 85, 88, 100}

NoResult == Raised("not called")
NoArgs == [e0 |-> None, e1 |-> None, e1_valid |-> "None", e2 |-> None, e2_score |-> NoScore]
NoCall == [wo |-> <<>>, ret |-> 0, hit |-> FALSE, exc |-> "none"]

\* WOProcessor.__init__: the defaults of confidence_threshold, mode and filter_non_defect
DefaultThreshold == 75
DefaultConfig == [mode |-> "catalog", filter_non_defect |-> TRUE]

\* a processor just constructed
NewProcessor(config) ==
    /\ proc = config
    /\ heap = <<>>
    /\ cache = {}
    /\ calls = 0
    /\ last = NoCall
    /\ invocations = <<>>

\* DecisionEngine.__init__(confidence_threshold), and the arguments of the call
EngineInit ==
    /\ confidence_threshold \in ThresholdInputs
    /\ args \in [e0 : E0Inputs, e1 : E1Inputs, e1_valid : E1ValidInputs,
                 e2 : E2Inputs, e2_score : ScoreInputs]
    /\ pc = "ready"
    /\ result = NoResult
    /\ validated = "None"

\* engine.make_decision(e0, e1, e1_valid, e2, e2_score)
MakeDecision ==
    /\ pc = "ready"
    /\ result' = make_decision(confidence_threshold, args.e0, args.e1, args.e1_valid,
                               args.e2, args.e2_score)
    /\ pc' = IF result'.exc = "none" THEN "returned" ELSE "raised"
    /\ UNCHANGED <<confidence_threshold, args, validated>>
    /\ UNCHANGED pipelineVars
    /\ UNCHANGED componentVars
    /\ UNCHANGED batchVars

\* engine.validate_decision(result)
ValidateDecision ==
    /\ pc = "returned"
    /\ validated' = IF validate_decision(result) THEN "True" ELSE "False"
    /\ pc' = "validated"
    /\ UNCHANGED <<confidence_threshold, args, result>>
    /\ UNCHANGED pipelineVars
    /\ UNCHANGED componentVars
    /\ UNCHANGED batchVars

\* no dataframe is processed; the catalog's model is the fitted one
NoBatch ==
    /\ vectorizer = "fitted"
    /\ df = <<>>
    /\ results_df = <<>>
    /\ outcome = "pending"

\* no component function is called on its own
NoComponentCall ==
    /\ fn = "none"
    /\ arg = None
    /\ at = "call"
    /\ ret = None

Init == EngineInit /\ NewProcessor(DefaultConfig) /\ NoComponentCall /\ NoBatch
Next == MakeDecision \/ ValidateDecision
Spec == Init /\ [][Next]_vars

----------------------------------------------------------------------------
(* A WOProcessor and a sequence of process_wo calls on it *)

MaxCalls == 2

\* entered codes: canonical, undashed, empty, and one with too few digits
EnteredInputs == {ATA_21_26, <<"2", "1", "2", "7">>, <<>>, <<"2", "1", "2">>}

\* the rows of the input: the per-row fields beside the entered code
Rows ==
    {[WO_Type |-> "DEFECT", AC_Registration |-> "VN-A321",
      Open_Date |-> "2024-01-01", Close_Date |-> "2024-01-02"],
     [WO_Type |-> "PIREP", AC_Registration |-> "VN-A350",
      Open_Date |-> "2024-02-01", Close_Date |-> "2024-02-03"]}

WODict(entered, defect, rect, row) ==
    [ATA04_Entered |-> entered, Defect_Text |-> defect, Rectification_Text |-> rect,
     WO_Type |-> row.WO_Type, AC_Registration |-> row.AC_Registration,
     Open_Date |-> row.Open_Date, Close_Date |-> row.Close_Date]

WOInputs ==
    {WODict(e, d, r, row) : e \in EnteredInputs, d \in DefectTexts,
                            r \in RectificationTexts, row \in Rows}
    \cup {WODict(ATA_21_26, pair[1], pair[2], CHOOSE row \in Rows : row.WO_Type = "DEFECT") :
              pair \in TextPairs \ (DefectTexts \X RectificationTexts)}

CacheHas(key) == \E e \in cache : e[1] = key
CacheGet(key) == (CHOOSE e \in cache : e[1] = key)[2]

PipelineInit ==
    /\ confidence_threshold = DefaultThreshold
    /\ args = NoArgs
    /\ pc = "ready"
    /\ result = NoResult
    /\ validated = "None"
    /\ \E config \in [mode : {"catalog", "rag"}, filter_non_defect : BOOLEAN] :
          NewProcessor(config)
    /\ NoComponentCall
    /\ NoBatch

\* The calls process_wo makes on its collaborators on a cache miss, in order:
\* the gate when filtering is on, then, unless the gate short-circuits, the
\* citation extractor and, in catalog mode, the catalog
Invocation(component, cache_key) == [component |-> component, key |-> cache_key]
MissInvocations(config, wo_dict) ==
    LET cache_key == get_cache_key(wo_dict.Defect_Text, wo_dict.Rectification_Text)
        gate == GateResult(wo_dict.Defect_Text, wo_dict.Rectification_Text)
        stops == config.filter_non_defect /\ ~gate.is_defect
    IN  (IF config.filter_non_defect
         THEN <<Invocation("non_defect_filter", cache_key)>> ELSE <<>>)
        \o (IF stops THEN <<>> ELSE <<Invocation("citation_extractor", cache_key)>>)
        \o (IF stops \/ config.mode # "catalog"
            THEN <<>> ELSE <<Invocation("catalog", cache_key)>>)

ProcessWOHitRecomputes(wo_dict) ==
    LET ata_entered == normalize_ata(wo_dict.ATA04_Entered)
        cache_key == get_cache_key(wo_dict.Defect_Text, wo_dict.Rectification_Text)
    IN  /\ calls < MaxCalls
        /\ CacheHas(cache_key)
        /\ heap' = [heap EXCEPT ![CacheGet(cache_key)] = UpdateCached(@, ata_entered, wo_dict)]
        /\ last' = [wo |-> wo_dict, ret |-> CacheGet(cache_key), hit |-> TRUE, exc |-> "none"]
        /\ calls' = calls + 1
        /\ invocations' = invocations \o MissInvocations(proc, wo_dict)
        /\ UNCHANGED <<cache, proc>>
        /\ UNCHANGED engineVars
        /\ UNCHANGED componentVars
        /\ UNCHANGED batchVars

\* processor.process_wo(wo_dict), served from the cache
ProcessWOHit(wo_dict) ==
    LET ata_entered == normalize_ata(wo_dict.ATA04_Entered)
        cache_key == get_cache_key(wo_dict.Defect_Text, wo_dict.Rectification_Text)
    IN  /\ calls < MaxCalls
        /\ CacheHas(cache_key)
        /\ heap' = [heap EXCEPT ![CacheGet(cache_key)] = UpdateCached(@, ata_entered, wo_dict)]
        /\ last' = [wo |-> wo_dict, ret |-> CacheGet(cache_key), hit |-> TRUE, exc |-> "none"]
        /\ calls' = calls + 1
        /\ UNCHANGED <<cache, proc, invocations>>
        /\ UNCHANGED engineVars
        /\ UNCHANGED componentVars
        /\ UNCHANGED batchVars

\* processor.process_wo(wo_dict), computed and cached (nothing is cached or
\* returned when the decision engine raises)
ProcessWOMiss(wo_dict) ==
    LET ata_entered == normalize_ata(wo_dict.ATA04_Entered)
        cache_key == get_cache_key(wo_dict.Defect_Text, wo_dict.Rectification_Text)
        r == ComputeWOResult(proc, confidence_threshold, ata_entered, wo_dict)
    IN  /\ calls < MaxCalls
        /\ ~CacheHas(cache_key)
        /\ IF r.Decision = ""
           THEN /\ last' = [wo |-> wo_dict, ret |-> 0, hit |-> FALSE, exc |-> "TypeError"]
                /\ UNCHANGED <<heap, cache>>
           ELSE /\ heap' = Append(heap, r)
                /\ cache' = cache \cup {<<cache_key, Len(heap) + 1>>}
                /\ last' = [wo |-> wo_dict, ret |-> Len(heap) + 1, hit |-> FALSE, exc |-> "none"]
        /\ invocations' = invocations \o MissInvocations(proc, wo_dict)
        /\ calls' = calls + 1
        /\ UNCHANGED proc
        /\ UNCHANGED engineVars
        /\ UNCHANGED componentVars
        /\ UNCHANGED batchVars

ProcessWO == \E wo_dict \in WOInputs : ProcessWOHit(wo_dict) \/ ProcessWOMiss(wo_dict)

PipelineNext == ProcessWO
PipelineSpec == PipelineInit /\ [][PipelineNext]_vars

----------------------------------------------------------------------------
(* The component functions, each called on its own on one argument *)

MaxLen == 5
MaxTaskLen == 6
MaxWords == 2
MaxTokens == 4

\* the sequences over a set of at most n elements
SeqsUpTo(A, n) == UNION {[1..k -> A] : k \in 0..n}

\* scores: None, and every hundredth from 0.00 to 1.00
ScoreArgs == {NoScore} \cup (0..100)

\* ATA strings: None, and every string of digits, dashes, spaces and letters
AtaAlphabet == {"2", "6", "-", " ", "A"}
AtaArgs == {None} \cup SeqsUpTo(AtaAlphabet, MaxLen)

\* task numbers: every short string of digits, dashes and letters, and longer
\* ones written in the usual ways
TaskAlphabet == {"2", "-", "T"}
Chars212600 == <<"2", "1", "2", "6", "0", "0">>
TaskExamples ==
    {Chars212600 \o <<"8", "6", "0">>,
     Chars212600 \o <<"8", "6", "0", "8", "0", "1">>,
     Chars212600 \o <<"8", "6", "0", "8", "0", "1", "9", "9">>,
     JoinDash(<<G("2", "1"), G("2", "6"), G("0", "0"), <<"8", "6", "0">>, <<"8", "0", "1">>>>),
     JoinDash(<<G("2", "1"), G("2", "6"), G("0", "0"), <<"8", "6", "0">>, <<"8", "0", "1">>,
                <<"9">>>>)}
TaskArgs == SeqsUpTo(TaskAlphabet, MaxTaskLen) \cup TaskExamples

\* descriptions and actions of the gate: every short description over a
\* vocabulary of indicator and neutral words, with actions that report no
\* fault, routine work, a replacement, or nothing
GateWords == {"Warning", "light", "Cleaning", "system", "failure", "operational", "Scheduled"}
DescriptionArgs == SeqsUpTo({Word(w) : w \in GateWords}, MaxWords)
ActionArgs ==
    {<<>>,
     <<Word("Inspected"), Word("system"), Word("NFF")>>,
     <<Word("check")>>,
     <<Word("Replaced"), Word("faulty"), Word("component")>>,
     <<Word("Performed"), Word("general"), Word("cleaning")>>,
     <<Word("no"), Word("fault"), Word("found")>>}
GateArgs == [description : DescriptionArgs, action : ActionArgs]

\* rectification texts: every short text over manual tags, task words, plain
\* words and task numbers
TASK_32_47_00_860_801 ==
    <<G("3", "2"), G("4", "7"), G("0", "0"), <<"8", "6", "0">>, <<"8", "0", "1">>>>
CitationTokens ==
    {Word("per"), Word("TSM"), Word("AMM"), Word("task:"), Word("ref"),
     Num(TASK_21_26_00), Num(TASK_32_47_00_860_801), Glued("FIM", TASK_21_26_00)}
TextArgs == SeqsUpTo(CitationTokens, MaxTokens)

ComponentInit ==
    /\ confidence_threshold = DefaultThreshold
    /\ args = NoArgs
    /\ pc = "ready"
    /\ result = NoResult
    /\ validated = "None"
    /\ NewProcessor(DefaultConfig)
    /\ \/ fn = "calculate_e2_confidence" /\ arg \in ScoreArgs
       \/ fn = "normalize" /\ arg \in AtaArgs
       \/ fn = "is_technical_defect" /\ arg \in GateArgs
       \/ fn = "extract_citations" /\ arg \in TextArgs
       \/ fn = "normalize_task_number" /\ arg \in TaskArgs
    /\ at = "call"
    /\ ret = None
    /\ NoBatch

\* the function returns: its value is in ret
Returns(value) ==
    /\ at = "call"
    /\ ret' = value
    /\ at' = "return"
    /\ UNCHANGED <<fn, arg>>
    /\ UNCHANGED engineVars
    /\ UNCHANGED pipelineVars
    /\ UNCHANGED batchVars

\* engine._calculate_e2_confidence(score)
CallCalculateE2Confidence ==
    fn = "calculate_e2_confidence" /\ Returns(calculate_e2_confidence(arg))

\* engine._normalize(ata)
CallNormalize ==
    fn = "normalize" /\ Returns(normalize(arg))

\* filter.is_technical_defect(description, action)
CallIsTechnicalDefect ==
    fn = "is_technical_defect" /\ Returns(is_technical_defect(arg.description, arg.action))

\* extractor.extract_citations(text)
CallExtractCitations ==
    fn = "extract_citations" /\ Returns(extract_citations(arg))

\* extractor.normalize_task_number(task)
CallNormalizeTaskNumber ==
    fn = "normalize_task_number" /\ Returns(normalize_task_number(arg))

ComponentNext ==
    \/ CallCalculateE2Confidence
    \/ CallNormalize
    \/ CallIsTechnicalDefect
    \/ CallExtractCitations
    \/ CallNormalizeTaskNumber
ComponentSpec == ComponentInit /\ [][ComponentNext]_vars

----------------------------------------------------------------------------
(* A WOProcessor and one process_dataframe call on it *)

MaxRows == 3

\* WOProcessor.COLUMN_MAPPING; "" for a column it does not name
COLUMN_MAPPING(col) ==
    CASE col = "ATA" -> "ATA04_Entered"
      [] col = "W/O Description" -> "Defect_Text"
      [] col = "W/O Action" -> "Rectification_Text"
      [] col = "Type" -> "WO_Type"
      [] col = "A/C" -> "AC_Registration"
      [] col = "Issued" -> "Open_Date"
      [] col = "Closed" -> "Close_Date"
      [] col = "ATA 04 Corrected" -> "ATA04_Final"
      [] OTHER -> ""

\* WOProcessor._map_columns, on one row: the columns the mapping names are renamed
Renamed(col) == IF COLUMN_MAPPING(col) # "" THEN COLUMN_MAPPING(col) ELSE col
map_columns(row) ==
    [c \in {Renamed(col) : col \in DOMAIN row} |->
        row[CHOOSE col \in DOMAIN row : Renamed(col) = c]]

\* the columns process_dataframe copies from the input to its result
AdditionalColumns(row) ==
    {col \in DOMAIN row : COLUMN_MAPPING(col) = "" /\ col \in DOMAIN map_columns(row)}

\* A row of the sheet the user uploads, under the user's column names, with a
\* column of its own beside the mapped ones
SheetRow(ata, description, action, station) ==
    [col \in {"ATA", "W/O Description", "W/O Action", "Type", "A/C", "Issued", "Closed",
              "Station"} |->
        CASE col = "ATA" -> ata
          [] col = "W/O Description" -> description
          [] col = "W/O Action" -> action
          [] col = "Type" -> "DEFECT"
          [] col = "A/C" -> "VN-A321"
          [] col = "Issued" -> "2024-01-01"
          [] col = "Closed" -> "2024-01-02"
          [] OTHER -> station]
SheetRows ==
    {SheetRow(e, d, r, "SGN") :
        e \in {ATA_21_26, <<"2", "1", "2", "7">>},
        d \in {<<Word("Pack"), Word("leak")>>, <<Word("Cabin"), Word("cleaning")>>},
        r \in RectificationTexts}

\* self.vectorizer.transform raises when the pickled vectorizer loaded by
\* _load_model is not a fitted one; predict_ata returns before that for an
\* empty text
PredictRaises(model, defect_text) == model # "fitted" /\ defect_text # <<>>

\* process_wo reaches phase 3 and asks the catalog
AsksCatalog(config, wo_dict) ==
    /\ config.mode = "catalog"
    /\ ~(/\ config.filter_non_defect
         /\ ~GateResult(wo_dict.Defect_Text, wo_dict.Rectification_Text).is_defect)

\* The state process_dataframe works on: the processor's objects and cache,
\* the calls made, the result dicts collected, and the exception, if any
RunState(h, c, inv, n, l) ==
    [heap |-> h, cache |-> c, invocations |-> inv, calls |-> n, last |-> l,
     results |-> <<>>, exc |-> "none"]

\* result = self.process_wo(row.to_dict()); results.append(asdict(result))
ProcessRow(config, threshold, model, st, wo_dict) ==
    LET ata_entered == normalize_ata(wo_dict.ATA04_Entered)
        cache_key == get_cache_key(wo_dict.Defect_Text, wo_dict.Rectification_Text)
        is_cached == \E e \in st.cache : e[1] = cache_key
        cached == (CHOOSE e \in st.cache : e[1] = cache_key)[2]
        r == ComputeWOResult(config, threshold, ata_entered, wo_dict)
        new == Len(st.heap) + 1
        called == [st EXCEPT !.calls = @ + 1]
    IN  IF is_cached THEN
            LET patched == UpdateCached(st.heap[cached], ata_entered, wo_dict)
            IN  [called EXCEPT !.heap[cached] = patched,
                               !.last = [wo |-> wo_dict, ret |-> cached, hit |-> TRUE,
                                         exc |-> "none"],
                               !.results = Append(@, patched)]
        ELSE IF AsksCatalog(config, wo_dict) /\ PredictRaises(model, wo_dict.Defect_Text) THEN
            [called EXCEPT !.invocations = @ \o MissInvocations(config, wo_dict),
                           !.last = [wo |-> wo_dict, ret |-> 0, hit |-> FALSE,
                                     exc |-> "NotFittedError"],
                           !.exc = "NotFittedError"]
        ELSE IF r.Decision = "" THEN
            [called EXCEPT !.invocations = @ \o MissInvocations(config, wo_dict),
                           !.last = [wo |-> wo_dict, ret |-> 0, hit |-> FALSE,
                                     exc |-> "TypeError"],
                           !.exc = "TypeError"]
        ELSE
            [called EXCEPT !.heap = Append(@, r),
                           !.cache = @ \cup {<<cache_key, new>>},
                           !.invocations = @ \o MissInvocations(config, wo_dict),
                           !.last = [wo |-> wo_dict, ret |-> new, hit |-> FALSE,
                                     exc |-> "none"],
                           !.results = Append(@, r)]

\* for idx, row in df_mapped.iterrows(): ...; an exception ends the loop
\* (the state after each row is a value of its own, bound to st)
RECURSIVE ProcessRows(_, _, _, _, _)
ProcessRows(config, threshold, model, state, rows) ==
    CHOOSE done \in
        {IF rows = <<>> \/ st.exc # "none" THEN st
         ELSE ProcessRows(config, threshold, model,
                          ProcessRow(config, threshold, model, st, Head(rows)), Tail(rows)) :
         st \in {state}} : TRUE

\* results_df = pd.DataFrame(results), with the additional columns of the input
ResultsFrame(results, df_mapped) ==
    [i \in DOMAIN results |->
        results[i] @@ [col \in AdditionalColumns(df_mapped[i]) |-> df_mapped[i][col]]]

BatchInit ==
    /\ confidence_threshold = DefaultThreshold
    /\ args = NoArgs
    /\ pc = "ready"
    /\ result = NoResult
    /\ validated = "None"
    /\ \E config \in [mode : {"catalog", "rag"}, filter_non_defect : BOOLEAN] :
          NewProcessor(config)
    /\ NoComponentCall
    /\ vectorizer \in {"fitted", "unfitted"}
    /\ df \in SeqsUpTo(SheetRows, MaxRows)
    /\ results_df = <<>>
    /\ outcome = "pending"

\* processor.process_dataframe(df)
ProcessDataframe ==
    /\ outcome = "pending"
    /\ \E df_mapped \in {[i \in DOMAIN df |-> map_columns(df[i])]} :
       \E done \in {ProcessRows(proc, confidence_threshold, vectorizer,
                                RunState(heap, cache, invocations, calls, last), df_mapped)} :
          /\ heap' = done.heap
          /\ cache' = done.cache
          /\ invocations' = done.invocations
          /\ calls' = done.calls
          /\ last' = done.last
          /\ IF done.exc = "none"
             THEN /\ results_df' = ResultsFrame(done.results, df_mapped)
                  /\ outcome' = "returned"
             ELSE /\ results_df' = results_df
                  /\ outcome' = done.exc
    /\ UNCHANGED <<proc, vectorizer, df>>
    /\ UNCHANGED engineVars
    /\ UNCHANGED componentVars

BatchNext == ProcessDataframe
BatchSpec == BatchInit /\ [][BatchNext]_vars

----------------------------------------------------------------------------
(* Properties of make_decision (specification Spec) *)

\* the call has been made (it returned or raised)
Called == pc # "ready"
\* the normalized witnesses of the call: entered, validated citation, catalog
N0 == normalize(args.e0)
N1 == IF args.e1_valid = "True" THEN normalize(args.e1) ELSE None
N2 == normalize(args.e2)
HasScore == args.e2_score # NoScore

\* bucket(score) as the design states it: >=0.8 -> 0.88, >=0.6 -> 0.83,
\* >=0.4 -> 0.78, >=0.2 -> 0.73, else 0.68, missing score -> 0.68
Bucket(score) ==
    IF score = NoScore THEN 68
    ELSE IF score >= 80 THEN 88
    ELSE IF score >= 60 THEN 83
    ELSE IF score >= 40 THEN 78
    ELSE IF score >= 20 THEN 73
    ELSE 68

\* the call returned this verdict, final code and confidence
Outcome(decision, ata04_final, confidence) ==
    /\ result.exc = "none"
    /\ result.decision = decision
    /\ result.ata04_final = ata04_final
    /\ result.confidence = confidence

\* C1: make_decision is total: for every combination of e0, e1, e1_valid, e2
\* and e2_score (each possibly null) the call never raises and returns a
\* verdict in {CONFIRM, CORRECT, REVIEW} with a confidence in [0,1], a result
\* validate_decision accepts.
C1_Total ==
    Called =>
        /\ result.exc = "none"
        /\ result.decision \in {"CONFIRM", "CORRECT", "REVIEW"}
        /\ result.confidence >= 0 /\ result.confidence <= 100
        /\ validate_decision(result)

\* C3: when a valid E1 and E2 are both present and equal, the agreement alone
\* decides, for any score and threshold: CONFIRM with E0 at 0.97 if E0 equals
\* them, otherwise CORRECT with E1 at 0.95.
C3_AgreementDecides ==
    (Called /\ N1 # None /\ N2 # None /\ N1 = N2) =>
        IF N0 = N1 THEN Outcome("CONFIRM", N0, 97) ELSE Outcome("CORRECT", N1, 95)

\* C3 witness: E1 and E2 agree against an absent E0, with no score at all and
\* the highest threshold, and the call has returned
C3_Witness ==
    /\ pc = "returned"
    /\ N1 # None /\ N1 = N2 /\ N0 = None
    /\ ~HasScore
    /\ confidence_threshold = 100
    /\ result.decision = "CORRECT"

\* C4: with no valid E1 and E0 and E2 present and equal, the result is CONFIRM
\* with E0 and confidence bucket(score) for every score, a missing score
\* included (0.68).
C4_CatalogConfirms ==
    (Called /\ N1 = None /\ N0 # None /\ N0 = N2) =>
        Outcome("CONFIRM", N0, Bucket(args.e2_score))

\* C5: with a valid E1, E2 absent or different from E1, and E2 absent or its
\* score in [0, 0.3) (exactly 0 included), the result is CONFIRM with E0 at
\* 0.92 if E0 equals E1 and otherwise CORRECT with E1 at 0.90.
C5_CitationAlone ==
    (/\ Called
     /\ N1 # None
     /\ (N2 = None \/ N1 # N2)
     /\ (N2 = None \/ (HasScore /\ args.e2_score >= 0 /\ args.e2_score < 30))) =>
        IF N0 = N1 THEN Outcome("CONFIRM", N0, 92) ELSE Outcome("CORRECT", N1, 90)

\* C6: with no valid E1, E2 present with score >= 0.3 and different from E0
\* (or E0 absent), the result is CORRECT with E2 exactly when bucket(score) >=
\* confidence_threshold, and otherwise REVIEW with E0 (null if absent); the
\* confidence is bucket(score) in both cases.
C6_CatalogAlone ==
    (Called /\ N1 = None /\ N2 # None /\ HasScore /\ args.e2_score >= 30 /\ N2 # N0) =>
        IF Bucket(args.e2_score) >= confidence_threshold
        THEN Outcome("CORRECT", N2, Bucket(args.e2_score))
        ELSE Outcome("REVIEW", N0, Bucket(args.e2_score))

\* C6 witness: the bucket of the score is exactly the threshold, and the call
\* has corrected to E2
C6_Witness ==
    /\ pc = "returned"
    /\ N1 = None /\ N2 # None /\ N2 # N0
    /\ HasScore /\ args.e2_score >= 30
    /\ Bucket(args.e2_score) = confidence_threshold
    /\ result.decision = "CORRECT"

\* C7: with a valid E1 and an E2 with score >= 0.3 that differ, the citation
\* is preferred: E0=E1 gives CONFIRM E0 at 0.88; else E0=E2 with score >= 0.8
\* gives CONFIRM E0 at 0.85; else E0=E2 gives REVIEW E0 at 0.70; else REVIEW
\* E0 at 0.65.  The result is never CORRECT.
C7_Conflict ==
    (Called /\ N1 # None /\ N2 # None /\ HasScore /\ args.e2_score >= 30 /\ N1 # N2) =>
        /\ IF N0 = N1 THEN Outcome("CONFIRM", N0, 88)
           ELSE IF N0 = N2 /\ args.e2_score >= 80 THEN Outcome("CONFIRM", N0, 85)
           ELSE IF N0 = N2 THEN Outcome("REVIEW", N0, 70)
           ELSE Outcome("REVIEW", N0, 65)
        /\ result.decision # "CORRECT"

\* C7 witness: E0 sides with a catalog match whose score is exactly 0.8
\* against the citation, and the call has confirmed E0
C7_Witness ==
    /\ pc = "returned"
    /\ N1 # None /\ N2 # None /\ N1 # N2 /\ N0 = N2
    /\ args.e2_score = 80
    /\ result.decision = "CONFIRM"

\* the call ended in the last rule of the cascade
LastRule ==
    /\ result.exc = "none"
    /\ result.confidence = 50
    /\ result.reason.text = "Insufficient data for decision"

\* E2 is present but unusable: score below 0.3 or missing, no valid E1, E2
\* different from E0
E2Unusable ==
    /\ N2 # None /\ N1 = None /\ N2 # N0
    /\ (~HasScore \/ args.e2_score < 30)

C9_OnlyEntered ==
    (Called /\ N0 # None /\ N1 = None /\ N2 = None) => Outcome("REVIEW", N0, 65)

\* C9 witness: an E1 that is not validated and an E2 that does not normalize,
\* a full score, and the call has returned
C9_Witness ==
    /\ pc = "returned"
    /\ N0 # None
    /\ args.e1 # None /\ args.e1_valid = "False"
    /\ args.e2 # None /\ N2 = None
    /\ args.e2_score = 100
    /\ result.decision = "REVIEW"

\* C10: confidence_threshold is the minimum confidence of non-REVIEW
\* decisions: for every threshold in [0.5, 1.0] a CONFIRM or CORRECT result
\* has confidence >= confidence_threshold.
C10_ThresholdIsMinimum ==
    (Called /\ result.exc = "none" /\ result.decision \in {"CONFIRM", "CORRECT"}) =>
        result.confidence >= confidence_threshold

----------------------------------------------------------------------------
(* Properties of process_wo (specification PipelineSpec) *)

\* the last call returned a result
Returned == calls > 0 /\ last.exc = "none"
\* the WOResult the last call returned
LastResult == heap[last.ret]

\* what make_decision gives for the row's own entered code and the
\* text-derived evidence of the result
OwnDecision(r, wo_dict) ==
    make_decision(confidence_threshold, normalize_ata(wo_dict.ATA04_Entered),
                  r.ATA04_From_Cited, r.Cited_Exists, r.ATA04_Derived, r.Derived_Score)

\* C2: the Decision, ATA04_Final, Confidence and Reason of every
\* technical-defect result process_wo returns equal what make_decision gives
\* for that work order's own normalized entered code with the text-derived
\* E1, e1_valid, E2 and score; the decision is never served from the cache.
C2_DecisionRecomputed ==
    (Returned /\ LastResult.Is_Technical_Defect) =>
        LET own == OwnDecision(LastResult, last.wo)
        IN  /\ LastResult.Decision = own.decision
            /\ LastResult.ATA04_Final = own.ata04_final
            /\ LastResult.Confidence = own.confidence
            /\ LastResult.Reason = EngineReason(own.reason)

----------------------------------------------------------------------------
(* Properties of the component functions (specification ComponentSpec) *)

\* the function has returned
Ran(f) == fn = f /\ at = "return"

\* C11: _calculate_e2_confidence is a monotonic non-decreasing step function
\* of the score with exactly the five bands >= 0.8 -> 0.88, >= 0.6 -> 0.83,
\* >= 0.4 -> 0.78, >= 0.2 -> 0.73, lower -> 0.68, and a missing score -> 0.68;
\* the boundaries 0.2, 0.4, 0.6 and 0.8 belong to the higher band.
C11_Bucketing ==
    Ran("calculate_e2_confidence") =>
        /\ ret = Bucket(arg)
        /\ ret \in {68, 73, 78, 83, 88}
        /\ arg \in {20, 40, 60, 80} => ret > calculate_e2_confidence(arg - 1)
        /\ arg # NoScore =>
              \A lower \in 0..arg : calculate_e2_confidence(lower) <= ret

\* C11 witness: a score exactly on a band boundary has been bucketed into the
\* higher band
C11_Witness ==
    /\ Ran("calculate_e2_confidence")
    /\ arg = 60
    /\ ret = 83

\* the digit characters of a string, in order (none for None)
DigitsOf(x) == IF x = None THEN <<>> ELSE SelectSeq(x, IsDigit)

\* two digits, a dash, two digits
IsAABB(x) ==
    /\ Len(x) = 5
    /\ x[3] = "-"
    /\ \A k \in {1, 2, 4, 5} : x[k] \in Digit

\* C12: ATA normalization is idempotent and fixes valid codes:
\* normalize(normalize(x)) = normalize(x) for every x; an already valid AA-BB
\* string is returned unchanged; the result is null exactly when x has fewer
\* than four digit characters, and otherwise is the first four digits of x
\* formatted AA-BB.
C12_NormalizeIdempotent ==
    Ran("normalize") =>
        LET digits == DigitsOf(arg)
        IN  /\ normalize(ret) = ret
            /\ IsAABB(arg) => ret = arg
            /\ (ret = None) <=> (Len(digits) < 4)
            /\ ret # None => ret = <<digits[1], digits[2], "-", digits[3], digits[4]>>

\* C12 witness: a string with four digits among other characters has been
\* normalized to a code that normalizes to itself
C12_Witness ==
    /\ Ran("normalize")
    /\ Len(DigitsOf(arg)) >= 4
    /\ ~IsAABB(arg)
    /\ IsAABB(ret)
    /\ normalize(ret) = ret

\* the combined description+action text the gate looks at
GateText == LowerText(arg.description \o arg.action)

\* some pattern of the list matches somewhere in the text
MatchesSomewhere(patterns, text) ==
    \E k \in DOMAIN patterns, i \in DOMAIN text : MatchesAt(patterns[k], text, i)

\* the phrase is what some pattern of the list matches somewhere in the text
IsMatchedPhrase(patterns, text, phrase) ==
    \E k \in DOMAIN patterns, i \in DOMAIN text :
        /\ MatchesAt(patterns[k], text, i)
        /\ phrase = [j \in 1..Len(patterns[k]) |-> text[i + j - 1].w]

ReportsNFF(action) == \E i \in DOMAIN action : Lower(action[i].w) = "nff"

\* C16: a work order whose action text reports 'NFF' is classified as
\* non-defect with a reason that mentions 'nff', also when the description
\* reports a warning indication ('Warning light illuminated' / 'Inspected
\* system, NFF').
C16_NFFIsNonDefect ==
    (Ran("is_technical_defect") /\ ReportsNFF(arg.action)) =>
        /\ ~ret.is_defect
        /\ \E j \in DOMAIN ret.reason.phrase : ret.reason.phrase[j] = "nff"

\* a reference: a manual type and a task number
Reference(manual_type, n) == [manual_type |-> manual_type, task_number |-> JoinDash(n)]

\* the references written with an explicit manual tag, from token i on, in
\* text order: a tag against a task number, or a tag followed by one
RECURSIVE TaggedReferences(_, _)
TaggedReferences(text, i) ==
    IF i > Len(text) THEN <<>>
    ELSE IF IsGlued(text[i]) /\ IsTag(text[i].w) THEN
        <<Reference(Upper(text[i].w), text[i].n)>> \o TaggedReferences(text, i + 1)
    ELSE IF IsWord(text[i]) /\ IsTag(text[i].w) /\ i < Len(text) /\ IsNum(text[i + 1]) THEN
        <<Reference(Upper(text[i].w), text[i + 1].n)>> \o TaggedReferences(text, i + 2)
    ELSE TaggedReferences(text, i + 1)

\* every task number of the text is written with an explicit manual tag
AllTagged(text) ==
    \A i \in DOMAIN text :
        IsNum(text[i]) => (i > 1 /\ IsWord(text[i - 1]) /\ IsTag(text[i - 1].w))

\* a sequence without its repetitions, first occurrences kept
RECURSIVE Distinct(_)
Distinct(seq) ==
    IF seq = <<>> THEN <<>>
    ELSE LET init == Distinct(SubSeq(seq, 1, Len(seq) - 1))
             x == seq[Len(seq)]
         IN  IF \E k \in DOMAIN init : init[k] = x THEN init ELSE Append(init, x)

\* the manual type and task number of each citation of a list
References(citations) ==
    [k \in DOMAIN citations |->
        [manual_type |-> citations[k].manual_type, task_number |-> citations[k].task_number]]

\* C17: extract_citations returns exactly one Citation per distinct reference
\* written with an explicit manual tag (TSM, FIM or AMM followed by AA-BB-CC
\* with optional -DDD-EEE), carrying that tag as its manual type, in text
\* order: one tagged reference gives a list of length 1, two distinct ones a
\* list of length 2; the bare-number pattern matching the same digits adds no
\* further citation under another manual type.
C17_OnePerTaggedReference ==
    (Ran("extract_citations") /\ AllTagged(arg)) =>
        /\ References(ret) = Distinct(TaggedReferences(arg, 1))
        /\ Len(ret) = Len(Distinct(TaggedReferences(arg, 1)))

\* every match of every pattern in the text, parsed: pattern by pattern,
\* and left to right within a pattern
RECURSIVE ParsedMatches(_, _)
ParsedMatches(text, p) ==
    IF p > NumPatterns \/ text = <<>> THEN <<>>
    ELSE LET matches == FindIter(p, text, 1)
         IN  [k \in DOMAIN matches |-> parse_match(matches[k])] \o ParsedMatches(text, p + 1)

\* C18: the list extract_citations returns has no two citations with the same
\* (manual type, task number) key: a match whose key an earlier match (of the
\* same or a higher-priority pattern) produced is dropped and the earlier
\* citation is kept.  Every citation has ata04 equal to chapter-section and
\* task_number equal to the dash-joined chapter, section, subject and
\* subsections.
C18_DistinctKeys ==
    Ran("extract_citations") =>
        /\ \A i, j \in DOMAIN ret : i # j => CitationKey(ret[i]) # CitationKey(ret[j])
        /\ References(ret) = Distinct(References(ParsedMatches(arg, 1)))
        /\ \A k \in DOMAIN ret :
              /\ ret[k].ata04 = ret[k].chapter \o <<"-">> \o ret[k].section
              /\ ret[k].task_number =
                    JoinDash(<<ret[k].chapter, ret[k].section, ret[k].subject>>
                             \o ret[k].subsections)

\* C18 witness: a text in which two patterns matched the same reference under
\* the same key has given one citation for it
C18_Witness ==
    /\ Ran("extract_citations")
    /\ Len(ParsedMatches(arg, 1)) > Len(ret)
    /\ Len(ret) = 1

\* the positions of the task numbers of a text
NumberPositions(text) == {i \in DOMAIN text : text[i].n # <<>>}

\* the manual type the token recognized before the number at position i
\* stands for: an explicit tag gives that type, the keyword 'task' gives AMM,
\* 'ref' gives TSM, and a bare number gives the default TSM
TypeOfToken(text, i) ==
    IF IsGlued(text[i]) /\ IsTag(text[i].w) THEN Upper(text[i].w)
    ELSE IF i > 1 /\ IsWord(text[i - 1]) /\ IsTag(text[i - 1].w) THEN Upper(text[i - 1].w)
    ELSE IF i > 1 /\ Lower(text[i - 1].w) \in {"task", "task:"} THEN "AMM"
    ELSE "TSM"

\* C19: the manual type of an extracted citation follows the recognized
\* token: an explicit TSM/FIM/AMM tag gives that type; a reference introduced
\* only by the keyword 'task' (as in 'task: 21-26-00') gives AMM; one
\* introduced only by 'ref' gives TSM; a bare number gives the default TSM.
C19_TypeFollowsToken ==
    (Ran("extract_citations") /\ Cardinality(NumberPositions(arg)) = 1) =>
        LET i == CHOOSE k \in NumberPositions(arg) : TRUE
        IN  /\ ret # <<>>
            /\ ret[1].manual_type = TypeOfToken(arg, i)

\* only digit characters
AllDigits(x) == \A k \in DOMAIN x : x[k] \in Digit

\* AA-BB-CC[-DDD[-EEE]]: three to five dash-separated groups of 2, 2, 2, 3
\* and 3 digits
IsTaskNumberFormat(x) ==
    LET groups == SplitDash(x)
    IN  /\ Len(groups) \in 3..5
        /\ \A k \in DOMAIN groups :
              /\ Len(groups[k]) = (IF k <= 3 THEN 2 ELSE 3)
              /\ AllDigits(groups[k])

\* C20: normalize_task_number reformats any digit/dash string into
\* AA-BB-CC[-DDD[-EEE]]: for every input the result has three to five
\* dash-separated groups of 2, 2, 2, 3 and 3 digits; a contiguous digit string
\* is split 2-2-2-3-3, missing groups up to the third are filled with '00',
\* groups beyond the fifth are dropped; an already normalized task number is
\* returned unchanged.
C20_TaskNumberFormat ==
    Ran("normalize_task_number") =>
        /\ IsTaskNumberFormat(ret)
        /\ (AllDigits(arg) /\ Len(arg) \in {6, 9, 12}) => SelectSeq(ret, IsDigit) = arg
        /\ IsTaskNumberFormat(arg) => ret = arg

----------------------------------------------------------------------------
(* Properties of the values process_wo exposes (specification PipelineSpec) *)

\* null or absent (a missing code is the empty string), or AA-BB
AtaOrNull(x) == x = None \/ x = <<>> \/ IsAABB(x)

\* C13: every ATA value exposed in a WOResult returned by process_wo
\* (ATA04_Entered, ATA04_From_Cited, ATA04_Final) is null/absent or two
\* digits, a dash, two digits, for every work order, one with an empty or
\* too short entered ATA included, and for non-defect results too.
C13_AtaWellFormed ==
    Returned =>
        /\ AtaOrNull(LastResult.ATA04_Entered)
        /\ AtaOrNull(LastResult.ATA04_From_Cited)
        /\ AtaOrNull(LastResult.ATA04_Final)

----------------------------------------------------------------------------
(* Properties of make_decision's use of E1 (specification Spec) *)

\* what the call gives with the citation taken away
WithoutCitation ==
    make_decision(confidence_threshold, args.e0, None, "False", args.e2, args.e2_score)

\* C14: an E1 that is not validated never influences the decision: with
\* e1_valid false or null, make_decision(e0, e1, e1_valid, e2, score) gives
\* exactly what make_decision(e0, null, false, e2, score) gives (verdict,
\* final code, confidence, reason).
C14_UnvalidatedIgnored ==
    (Called /\ args.e1_valid # "True") => result = WithoutCitation

\* C14 witness: the call has returned for a citation that is not validated
\* (e1_valid is null) and that, had it counted, would have agreed with the
\* catalog against the entered code
C14_Witness ==
    /\ pc = "returned"
    /\ args.e1_valid = "None"
    /\ normalize(args.e1) # None
    /\ normalize(args.e1) = N2
    /\ N0 # None /\ N0 # N2
    /\ result.decision = "REVIEW"

----------------------------------------------------------------------------
(* Properties of the non-defect short-circuit (specification PipelineSpec) *)

\* the gate's classification of the texts of the last work order
LastGate == GateResult(last.wo.Defect_Text, last.wo.Rectification_Text)

\* C21: every work order processed with filter_non_defect enabled and
\* classified non-defect by the gate, in any sequence of calls, gets verdict
\* NON_DEFECT, final code equal to its own normalized entered code,
\* confidence 0.99 and a reason derived from the gate's matched phrase.
C21_NonDefectOwnCode ==
    (Returned /\ proc.filter_non_defect /\ ~LastGate.is_defect) =>
        /\ LastResult.Decision = "NON_DEFECT"
        /\ LastResult.ATA04_Final = normalize_ata(last.wo.ATA04_Entered)
        /\ LastResult.Confidence = 99
        /\ LastResult.Reason = NonTechnical(LastGate.reason)

----------------------------------------------------------------------------
(* Properties of the citation process_wo passes on as E1 (specification PipelineSpec) *)

\* the decision for the last work order with its citation left out of E1
DecisionWithoutE1(r, wo_dict) ==
    make_decision(confidence_threshold, normalize_ata(wo_dict.ATA04_Entered),
                  None, "False", r.ATA04_Derived, r.Derived_Score)

\* C22: the pipeline passes a citation to the decision engine as valid E1
\* only if the registry confirmed that its task number exists: whatever the
\* registry holds, a citation for which exists() gave false, or gave no
\* answer, has Cited_Exists not true, and the decision computed for the work
\* order is the one make_decision gives without E1.
C22_OnlyValidated ==
    \A registry \in Registries :
        (/\ Returned /\ ~last.hit
         /\ LastResult.Cited_Task # None
         /\ ~exists(registry, LastResult.Cited_Task, LastResult.Cited_Manual)) =>
            /\ LastResult.Cited_Exists # "True"
            /\ LET without == DecisionWithoutE1(LastResult, last.wo)
               IN  /\ LastResult.Decision = without.decision
                   /\ LastResult.ATA04_Final = without.ata04_final
                   /\ LastResult.Confidence = without.confidence

----------------------------------------------------------------------------
(* Properties of process_dataframe (specification BatchSpec) *)

\* process_dataframe has ended, by returning or by raising
BatchEnded == outcome # "pending"

\* processing row i of the dataframe fails: it asks the catalog, whose model raises
RowFails(i) ==
    LET wo_dict == map_columns(df[i])
    IN  AsksCatalog(proc, wo_dict) /\ PredictRaises(vectorizer, wo_dict.Defect_Text)

\* row i of the result is the result of row i of the input
IsResultOf(i) ==
    /\ results_df[i].Defect_Text = df[i]["W/O Description"]
    /\ results_df[i].Rectification_Text = df[i]["W/O Action"]
    /\ results_df[i].ATA04_Entered = normalize_ata(df[i]["ATA"])
    /\ results_df[i].Station = df[i]["Station"]

\* C23: process_dataframe returns exactly one result per input row, in input
\* order, unconditionally: when processing a row fails (the catalog raises
\* for it) no exception reaches the caller, that row is emitted with verdict
\* REVIEW and a diagnostic reason, and all other rows are still processed.
C23_RowsIsolated ==
    BatchEnded =>
        /\ outcome = "returned"
        /\ Len(results_df) = Len(df)
        /\ \A i \in DOMAIN df :
              /\ IsResultOf(i)
              /\ RowFails(i) =>
                    /\ results_df[i].Decision = "REVIEW"
                    /\ results_df[i].Reason # NoReason

----------------------------------------------------------------------------
(* Properties of the collaborator that supplies E2 (specification PipelineSpec) *)

\* the match of the collaborator the mode selects, on the defect text
SelectedMatch(mode, defect_text) ==
    IF mode = "catalog" THEN predict_ata(defect_text) ELSE rag_search(defect_text)

\* C24: both modes supply E2: for a technical-defect work order the E2 and
\* score given to make_decision are the catalog's match on the defect text in
\* mode 'catalog' and the RAG store's match on it in mode 'rag'; E2 is absent
\* only when the selected collaborator returns no match.
C24_ModeSelectsE2 ==
    (Returned /\ ~last.hit /\ LastResult.Is_Technical_Defect) =>
        LET match == SelectedMatch(proc.mode, last.wo.Defect_Text)
        IN  /\ LastResult.ATA04_Derived = match.ata04
            /\ LastResult.Derived_Score = match.score
            /\ LastResult.ATA04_Derived = None <=> match = NoDerived

----------------------------------------------------------------------------
(* Properties of the objects process_wo returns (specification PipelineSpec) *)

\* C25: a WOResult is immutable once returned: no later process_wo call (one
\* for a work order with the same texts and another entered code,
\* registration or dates in particular) changes a field of a result returned
\* before, and each call returns a result distinct from those returned before.
C25_ResultsImmutable ==
    [][/\ \A id \in DOMAIN heap : heap'[id] = heap[id]
       /\ last'.exc = "none" => last'.ret \notin DOMAIN heap]_vars

----------------------------------------------------------------------------
(* Properties of the order of the citations (specification ComponentSpec) *)

\* the keys of the citations the matches of pattern p give, left to right
KeysOf(p, text) ==
    LET matches == FindIter(p, text, 1)
    IN  [k \in DOMAIN matches |-> CitationKey(parse_match(matches[k]))]
Finds(p, text, c) == \E k \in DOMAIN KeysOf(p, text) : KeysOf(p, text)[k] = CitationKey(c)

\* the highest-priority pattern that finds the citation, and the place of the
\* citation among the matches of that pattern
FirstPattern(text, c) ==
    CHOOSE p \in 1..NumPatterns :
        Finds(p, text, c) /\ \A q \in 1..(p - 1) : ~Finds(q, text, c)
FirstPlace(text, c) ==
    LET keys == KeysOf(FirstPattern(text, c), text)
    IN  CHOOSE k \in DOMAIN keys :
            keys[k] = CitationKey(c) /\ \A j \in 1..(k - 1) : keys[j] # CitationKey(c)

\* the patterns that match somewhere in the text
MatchingPatterns(text) == {p \in 1..NumPatterns : FindIter(p, text, 1) # <<>>}
\* the leftmost match of the highest-priority pattern that matches, parsed
LeftmostOfHighest(text) ==
    LET p == CHOOSE q \in MatchingPatterns(text) : \A o \in MatchingPatterns(text) : q <= o
    IN  parse_match(FindIter(p, text, 1)[1])

\* the citation fields of the WOResult of a work order with this action text
CitedFields(citations) ==
    LET r == WithCitation(NewWOResult(<<>>, WODict(<<>>, <<>>, <<>>, CHOOSE row \in Rows : TRUE)),
                          citations)
    IN  <<r.ATA04_From_Cited, r.Cited_Manual, r.Cited_Task>>

\* C26: the list extract_citations returns is ordered by pattern priority
\* first and text position second: a citation found by a higher-priority
\* pattern precedes one found only by a lower-priority pattern, and within a
\* pattern citations appear left to right.  The E1 of the pipeline is the
\* first element: the leftmost match of the highest-priority pattern that
\* matches anywhere in the text; the other citations are discarded.
C26_PriorityThenPosition ==
    Ran("extract_citations") =>
        /\ \A i, j \in DOMAIN ret :
              i < j =>
                 \/ FirstPattern(arg, ret[i]) < FirstPattern(arg, ret[j])
                 \/ /\ FirstPattern(arg, ret[i]) = FirstPattern(arg, ret[j])
                    /\ FirstPlace(arg, ret[i]) < FirstPlace(arg, ret[j])
        /\ (ret = <<>>) <=> (arg = <<>> \/ MatchingPatterns(arg) = {})
        /\ ret # <<>> =>
              /\ ret[1] = LeftmostOfHighest(arg)
              /\ CitedFields(ret) = <<ret[1].ata04, ret[1].manual_type, ret[1].task_number>>
        /\ ret = <<>> => CitedFields(ret) = <<None, "None", None>>

\* C26 witness: a bare task number stands before a tagged reference, the
\* citation of the tagged reference has come out first and is E1
C26_Witness ==
    /\ Ran("extract_citations")
    /\ arg = <<Num(TASK_32_47_00_860_801), Word("TSM"), Num(TASK_21_26_00)>>
    /\ Len(ret) = 2
    /\ CitedFields(ret)[3] = JoinDash(TASK_21_26_00)
    /\ ret[2].task_number = JoinDash(TASK_32_47_00_860_801)

----------------------------------------------------------------------------
(* Properties of the cache key (specification PipelineSpec) *)

\* C27: the cache is keyed on the exact (description, action text) pair: a
\* work order is served from a cache entry only if its description equals
\* the description, and its action text the action text, of the work order
\* the entry was computed for; the pairs 'a|b' with 'c' and 'a' with 'b|c',
\* whose concatenations with '|' coincide, never share an entry.
C27_KeyedOnExactPair ==
    (Returned /\ last.hit) =>
        /\ LastResult.Defect_Text = last.wo.Defect_Text
        /\ LastResult.Rectification_Text = last.wo.Rectification_Text

----------------------------------------------------------------------------
(* Properties of the collaborator calls of process_wo (specification PipelineSpec) *)

\* the text-derived fields of a WOResult: gate, citation and catalog
SubResults(r) ==
    <<r.Is_Technical_Defect, r.Non_Defect_Reason,
      r.ATA04_From_Cited, r.Cited_Manual, r.Cited_Task, r.Cited_Exists,
      r.ATA04_Derived, r.Derived_Task, r.Derived_DocType, r.Derived_Score,
      r.Evidence_Snippet, r.Evidence_Source>>

\* C28: across any sequence of process_wo calls on one processor (no
\* collaborator call failing) the gate, the citation extractor and the catalog
\* are each invoked at most once per cache key, none of them is invoked on a
\* cache hit, and on a hit the gate, citation and catalog fields of the result
\* returned are those computed on the first call for the key.
C28_ComputedOncePerKey ==
    [][/\ \A i, j \in DOMAIN invocations' : i # j => invocations'[i] # invocations'[j]
       /\ last'.hit =>
             /\ invocations' = invocations
             /\ SubResults(heap'[last'.ret]) = SubResults(heap[last'.ret])]_vars

\* C28 witness: a work order was served from the cache after the gate, the
\* extractor and the catalog had each been called once for its texts, and the
\* result carries a citation and a catalog match
C28_Witness ==
    /\ calls = 2
    /\ last.hit
    /\ Len(invocations) = 3
    /\ LastResult.Cited_Task # None
    /\ LastResult.ATA04_Derived # None
    /\ LastResult.ATA04_Entered = <<"2", "1", "2">>

----------------------------------------------------------------------------
(* Properties tying verdict and final code of make_decision (specification Spec) *)

\* C29: every result of make_decision ties verdict and final code: the final
\* code is null or one of normalized E0, valid normalized E1, normalized E2; a
\* CONFIRM has a non-null final code equal to normalized E0; a CORRECT has a
\* non-null final code that differs from normalized E0 and is E1 or E2; a
\* REVIEW has the final code normalized E0, null when E0 is absent.
C29_VerdictTiesFinalCode ==
    (Called /\ result.exc = "none") =>
        /\ result.ata04_final \in {None, N0, N1, N2}
        /\ result.decision = "CONFIRM" =>
              result.ata04_final # None /\ result.ata04_final = N0
        /\ result.decision = "CORRECT" =>
              /\ result.ata04_final # None
              /\ result.ata04_final # N0
              /\ result.ata04_final \in {N1, N2}
        /\ result.decision = "REVIEW" => result.ata04_final = N0

\* C29 witness: a valid citation alone has corrected a different entered
\* code: the call returned CORRECT with the citation's code as final code
C29_Witness ==
    /\ pc = "returned"
    /\ result.decision = "CORRECT"
    /\ N0 # None /\ N1 # None /\ N2 = None
    /\ result.ata04_final = N1
    /\ result.ata04_final # N0

----------------------------------------------------------------------------
(* Properties of every WOResult (specification PipelineSpec) *)

\* the citation fields and the catalog fields of the result are all absent
NoCitationFields(r) ==
    /\ r.ATA04_From_Cited = None
    /\ r.Cited_Manual = "None"
    /\ r.Cited_Task = None
    /\ r.Cited_Exists = "None"
NoCatalogFields(r) ==
    /\ r.ATA04_Derived = None
    /\ r.Derived_Task = None
    /\ r.Derived_DocType = "None"
    /\ r.Derived_Score = NoScore
    /\ r.Evidence_Snippet = "None"
    /\ r.Evidence_Source = "None"

\* C30: in every WOResult returned by any sequence of process_wo calls the
\* verdict is one of CONFIRM, CORRECT, REVIEW, NON_DEFECT and the confidence
\* is in [0,1]; the verdict is NON_DEFECT exactly when Is_Technical_Defect is
\* false; a NON_DEFECT result has all citation and all catalog fields absent;
\* with filter_non_defect disabled no result is NON_DEFECT.
C30_ResultInvariants ==
    \A id \in DOMAIN heap :
        LET r == heap[id]
        IN  /\ r.Decision \in {"CONFIRM", "CORRECT", "REVIEW", "NON_DEFECT"}
            /\ r.Confidence >= 0 /\ r.Confidence <= 100
            /\ r.Decision = "NON_DEFECT" <=> ~r.Is_Technical_Defect
            /\ r.Decision = "NON_DEFECT" => NoCitationFields(r) /\ NoCatalogFields(r)
            /\ ~proc.filter_non_defect => r.Decision # "NON_DEFECT"

\* C30 witness: a work order whose action text cites a manual was classified
\* non-defect and then served again from the cache: its result is NON_DEFECT
\* and carries no citation
C30_Witness ==
    /\ Returned /\ last.hit
    /\ proc.filter_non_defect
    /\ LastResult.Decision = "NON_DEFECT"
    /\ extract_citations(last.wo.Rectification_Text) # <<>>
    /\ predict_ata(last.wo.Defect_Text) = NoDerived
    /\ NoCitationFields(LastResult)

====
